---- MODULE Spec2Model ----
(***************************************************************************)
(* Model of the self-tuning Steam scraper (SCRAPPING/SteamScraper.py):     *)
(* the PerformanceGovernor control loop, the chunked run() loop that       *)
(* drives it, the classification of one entity's three responses, and the  *)
(* batches and output files of the SteamDataProcessor                      *)
(* (SteamDataExtract.py).                                                  *)
(*                                                                         *)
(* Python floats are modelled as exact rationals <<n, d>> in lowest terms  *)
(* (d > 0); IEEE rounding is not modelled.                                 *)
(***************************************************************************)
EXTENDS Integers, Sequences, FiniteSets, TLC

VARIABLES
    governor,   \* the PerformanceGovernor object (self.governor)
    adjusts,    \* number of assess_and_adjust() calls that passed the half-window test
    prev,       \* observation: the last governor call and the governor before it
    log,        \* observation: outcomes recorded since the last reset (SpecHist only)
    pc,                  \* where run() stands
    tasks,               \* worker coroutines alive on the event loop
    semaphore,           \* gate size of each chunk generation
    bans,                \* IPBannedException caught so far (chunk generation)
    output_file,         \* lines (app ids) of args.output_file
    invalid_output_file, \* lines (app ids) of args.invalid_output_file
    valid_data_batch,    \* processor._valid_data_batch
    invalid_data_batch,  \* processor._invalid_data_batch
    chunk,               \* observation: the chunk in progress
    attempt,             \* observation: the last process_game_details() that ended
    proc,                \* observation: the last call made to the SteamDataProcessor
    site                 \* the store: the kind of record each entity yields (SpecRestart)

govVars == <<governor, adjusts, prev, log>>
runVars == <<pc, tasks, semaphore, bans, output_file, invalid_output_file,
             valid_data_batch, invalid_data_batch, chunk, attempt, proc, site>>
vars == <<governor, adjusts, prev, log, pc, tasks, semaphore, bans, output_file,
          invalid_output_file, valid_data_batch, invalid_data_batch, chunk,
          attempt, proc, site>>

-----------------------------------------------------------------------------
(* Bounds of the model *)

MaxHistory == 3     \* history_size ranges over 1..MaxHistory
MaxAdjust == 4      \* acting assess_and_adjust() calls explored
MaxLog == 4         \* outcomes followed by the observation log
NumIds == 2         \* identifiers in the catalog: 1..NumIds
MaxBans == 1        \* IPBannedException explored per run
MaxItems == 4       \* records handed to a processor driven on its own
MaxLines == 2       \* lines of an output file read by the scan

-----------------------------------------------------------------------------
(* Rational arithmetic standing for Python float arithmetic *)

RECURSIVE GCD(_, _)
GCD(a, b) == IF b = 0 THEN a ELSE GCD(b, a % b)

Abs(x) == IF x < 0 THEN -x ELSE x

Rat(n, d) ==
    LET g == GCD(Abs(n), d) IN <<n \div g, d \div g>>

RMul(x, y) == Rat(x[1] * y[1], x[2] * y[2])
RAdd(x, y) == Rat(x[1] * y[2] + y[1] * x[2], x[2] * y[2])
RDiv(x, y) == Rat(x[1] * y[2], x[2] * y[1])
RLt(x, y) == x[1] * y[2] < y[1] * x[2]
\* Python max(a, b) / min(a, b): the first argument wins a tie
RMax(x, y) == IF RLt(x, y) THEN y ELSE x
RMin(x, y) == IF RLt(y, x) THEN y ELSE x
\* int(x) truncates toward zero
RInt(x) == IF x[1] >= 0 THEN x[1] \div x[2] ELSE -((-x[1]) \div x[2])
FromInt(i) == <<i, 1>>

-----------------------------------------------------------------------------
(* Enumerations *)

RequestOutcome == {"SUCCESS", "RATE_LIMIT", "FAILURE"}
GovernorState == {"OPTIMIZING", "THROTTLED", "RECOVERING"}

-----------------------------------------------------------------------------
(* Command-line configurations explored (argparse accepts any of them) *)

DefaultThrottlePct == <<15, 2>>     \* --throttle-threshold-pct default 7.5

ConcurrencyBounds == { <<2, 3>>, <<3, 2>> }
DelayBounds == { <<FromInt(3), FromInt(3)>>, <<FromInt(3), FromInt(4)>>,
                 <<FromInt(4), FromInt(3)>> }
ThrottlePcts == { DefaultThrottlePct, FromInt(50) }
ChunkSizes == { 2 }                  \* --chunk-size (also the batch size)

Args ==
    { [history_size |-> h,
       min_concurrency |-> c[1], max_concurrency |-> c[2],
       min_delay |-> d[1], max_delay |-> d[2],
       throttle_threshold_pct |-> t,
       chunk_size |-> k] :
        h \in 1..MaxHistory, c \in ConcurrencyBounds, d \in DelayBounds,
        t \in ThrottlePcts, k \in ChunkSizes }

-----------------------------------------------------------------------------
(* PerformanceGovernor *)

\* __init__
PerformanceGovernor(a) ==
    [args |-> a,
     state |-> "OPTIMIZING",
     history |-> << >>,
     min_concurrency |-> FromInt(a.min_concurrency),
     max_concurrency |-> FromInt(a.max_concurrency),
     min_delay |-> a.min_delay,
     max_delay |-> a.max_delay,
     current_concurrency |-> FromInt(a.min_concurrency),
     current_delay |-> RDiv(RAdd(a.min_delay, a.max_delay), FromInt(2))]

get_concurrency(g) == RInt(g.current_concurrency)

\* (mutant) a plain list: nothing is ever evicted
DequeAppendUnbounded(h, o, maxlen) == Append(h, o)

\* deque(maxlen=n).append: drops the oldest element of a full deque
DequeAppend(h, o, maxlen) ==
    LET s == Append(h, o)
    IN IF Len(s) > maxlen THEN SubSeq(s, Len(s) - maxlen + 1, Len(s)) ELSE s

record_outcome(g, outcome) ==
    [g EXCEPT !.history = DequeAppend(g.history, outcome, g.args.history_size)]

\* deque.count(x)
RECURSIVE Count(_, _)
Count(h, x) ==
    IF h = << >> THEN 0
    ELSE (IF Head(h) = x THEN 1 ELSE 0) + Count(Tail(h), x)

\* (mutant) only an empty window is too sparse: "if not self.history: return"
TooFewOnlyEmpty(g) == g.history = << >>

\* len(self.history) < self.args.history_size / 2 (true division)
TooFewOutcomes(g) == 2 * Len(g.history) < g.args.history_size

\* (mutant) the wrong member of RequestOutcome is counted
RateLimitPctOfFailures(g) == Rat(Count(g.history, "FAILURE"), Len(g.history))

\* self.history.count(RATE_LIMIT) / len(self.history)
RateLimitPct(g) == Rat(Count(g.history, "RATE_LIMIT"), Len(g.history))

\* (mutant) the percentage compared with a fraction, "/ 100" forgotten
ThresholdUnscaled(g) == g.args.throttle_threshold_pct

\* self.args.throttle_threshold_pct / 100
Threshold(g) == RDiv(g.args.throttle_threshold_pct, FromInt(100))

\* (mutant) a fully rate-limited window sends the governor to RECOVERING
NextStateToRecovering(g) ==
    IF RateLimitPct(g) = <<1, 1>> THEN "RECOVERING"
    ELSE IF g.state = "OPTIMIZING" /\ RLt(Threshold(g), RateLimitPct(g)) THEN "THROTTLED"
    ELSE IF g.state = "THROTTLED" /\ RLt(RateLimitPct(g), Threshold(g)) THEN "OPTIMIZING"
    ELSE g.state

\* (mutant) THROTTLED left with "<=" instead of "<"
NextStateReturnAtThreshold(g) ==
    IF g.state = "OPTIMIZING" /\ RLt(Threshold(g), RateLimitPct(g)) THEN "THROTTLED"
    ELSE IF g.state = "THROTTLED" /\ ~RLt(Threshold(g), RateLimitPct(g)) THEN "OPTIMIZING"
    ELSE g.state

\* the state-change block of assess_and_adjust
NextState(g) ==
    IF g.state = "OPTIMIZING" /\ RLt(Threshold(g), RateLimitPct(g)) THEN "THROTTLED"
    ELSE IF g.state = "THROTTLED" /\ RLt(RateLimitPct(g), Threshold(g)) THEN "OPTIMIZING"
    ELSE g.state

\* (mutant) the concurrency raised whatever the delay
SpeedUpAtOnce(g) ==
    [g EXCEPT !.current_delay = RMax(g.min_delay, RMul(g.current_delay, <<19, 20>>)),
              !.current_concurrency =
                  RMin(g.max_concurrency, RAdd(g.current_concurrency, <<1, 2>>))]

\* the OPTIMIZING branch of the speed-adjustment block
SpeedUp(g) ==
    LET d == RMax(g.min_delay, RMul(g.current_delay, <<19, 20>>))
    IN [g EXCEPT !.current_delay = d,
                 !.current_concurrency =
                     IF d = g.min_delay
                     THEN RMin(g.max_concurrency, RAdd(g.current_concurrency, <<1, 2>>))
                     ELSE g.current_concurrency]

\* (mutant) only the delay backs off
SlowDownDelayOnly(g) ==
    [g EXCEPT !.current_delay =
                  RMin(g.max_delay, RMul(g.current_delay, <<11, 10>>))]

\* the THROTTLED branch of the speed-adjustment block
SlowDown(g) ==
    [g EXCEPT !.current_concurrency =
                  RMax(g.min_concurrency, RMul(g.current_concurrency, <<9, 10>>)),
              !.current_delay =
                  RMin(g.max_delay, RMul(g.current_delay, <<11, 10>>))]

\* (mutant) THROTTLED backs off without max()/min() clamping
SpeedUnclamped(g) ==
    IF g.state = "OPTIMIZING" THEN SpeedUp(g)
    ELSE IF g.state = "THROTTLED" THEN
        [g EXCEPT !.current_concurrency = RMul(g.current_concurrency, <<9, 10>>),
                  !.current_delay = RMul(g.current_delay, <<11, 10>>)]
    ELSE IF RateLimitPct(g) = <<0, 1>> THEN [g EXCEPT !.state = "OPTIMIZING"] ELSE g

\* (mutant) THROTTLED with the two factors swapped
SpeedFactorsSwapped(g) ==
    IF g.state = "OPTIMIZING" THEN SpeedUp(g)
    ELSE IF g.state = "THROTTLED" THEN
        [g EXCEPT !.current_concurrency =
                      RMin(g.max_concurrency, RMul(g.current_concurrency, <<11, 10>>)),
                  !.current_delay =
                      RMax(g.min_delay, RMul(g.current_delay, <<9, 10>>))]
    ELSE IF RateLimitPct(g) = <<0, 1>> THEN [g EXCEPT !.state = "OPTIMIZING"] ELSE g

\* (mutant) RECOVERING left as soon as the rate is under the threshold
SpeedRecoverUnderThreshold(g) ==
    IF g.state = "OPTIMIZING" THEN SpeedUp(g)
    ELSE IF g.state = "THROTTLED" THEN SlowDown(g)
    ELSE IF RLt(RateLimitPct(g), Threshold(g))
         THEN [g EXCEPT !.state = "OPTIMIZING"] ELSE g

\* (mutant) RECOVERING speeds up while it waits for a clean window
SpeedRecoveringAdjusts(g) ==
    IF g.state = "OPTIMIZING" THEN SpeedUp(g)
    ELSE IF g.state = "THROTTLED" THEN SlowDown(g)
    ELSE IF RateLimitPct(g) = <<0, 1>> THEN [g EXCEPT !.state = "OPTIMIZING"]
         ELSE SpeedUp(g)

\* the speed-adjustment block of assess_and_adjust, run on the state just chosen
Speed(g) ==
    IF g.state = "OPTIMIZING" THEN SpeedUp(g)
    ELSE IF g.state = "THROTTLED" THEN SlowDown(g)
    ELSE \* RECOVERING
        IF RateLimitPct(g) = <<0, 1>> THEN [g EXCEPT !.state = "OPTIMIZING"] ELSE g

assess_and_adjust(g) ==
    IF TooFewOutcomes(g) THEN g
    ELSE Speed([g EXCEPT !.state = NextState(g)])

\* (mutant) the history is not cleared
ResetKeepsHistory(g) ==
    [g EXCEPT !.state = "RECOVERING",
              !.current_concurrency = g.min_concurrency,
              !.current_delay = g.max_delay]

reset_after_ban(g) ==
    [g EXCEPT !.state = "RECOVERING",
              !.current_concurrency = g.min_concurrency,
              !.current_delay = g.max_delay,
              !.history = << >>]

-----------------------------------------------------------------------------
(* The governor driven by arbitrary call sequences *)

NoCall == [op |-> "init", arg |-> "-", g |-> << >>]
NoChunk == [phase |-> "none"]
NoAttempt == [app_id |-> 0]
NoProc == [op |-> "none", okV |-> TRUE, okI |-> TRUE, items |-> 0]
NoSite == << >>

\* run() not started: nothing of the scraper but its governor exists
RunIdle ==
    /\ pc = "idle"
    /\ tasks = {}
    /\ semaphore = << >>
    /\ bans = 0
    /\ output_file = << >>
    /\ invalid_output_file = << >>
    /\ valid_data_batch = << >>
    /\ invalid_data_batch = << >>
    /\ chunk = NoChunk
    /\ attempt = NoAttempt
    /\ proc = NoProc
    /\ site = NoSite

InitGov ==
    /\ \E a \in Args : governor = PerformanceGovernor(a)
    /\ adjusts = 0
    /\ prev = NoCall
    /\ log = << >>
    /\ RunIdle

CallRecord(o) ==
    /\ governor' = record_outcome(governor, o)
    /\ prev' = [op |-> "record_outcome", arg |-> o, g |-> governor]
    /\ UNCHANGED adjusts

CallAssess ==
    /\ TooFewOutcomes(governor) \/ adjusts < MaxAdjust
    /\ governor' = assess_and_adjust(governor)
    /\ prev' = [op |-> "assess_and_adjust", arg |-> "-", g |-> governor]
    /\ adjusts' = IF TooFewOutcomes(governor) THEN adjusts ELSE adjusts + 1

CallReset ==
    /\ governor' = reset_after_ban(governor)
    /\ prev' = [op |-> "reset_after_ban", arg |-> "-", g |-> governor]
    /\ UNCHANGED adjusts

GovRecord == (\E o \in RequestOutcome : CallRecord(o)) /\ UNCHANGED <<log, runVars>>
GovAssess == CallAssess /\ UNCHANGED <<log, runVars>>
GovReset == CallReset /\ UNCHANGED <<log, runVars>>

NextGov == GovRecord \/ GovAssess \/ GovReset

Spec == InitGov /\ [][NextGov]_vars


(* The same calls with the outcomes recorded since the last reset observed *)
HistRecord ==
    /\ Len(log) < MaxLog
    /\ \E o \in RequestOutcome : CallRecord(o) /\ log' = Append(log, o)
    /\ UNCHANGED runVars
HistAssess == CallAssess /\ UNCHANGED <<log, runVars>>
HistReset == CallReset /\ log' = << >> /\ UNCHANGED runVars

NextHist == HistRecord \/ HistAssess \/ HistReset

SpecHist == InitGov /\ [][NextHist]_vars

-----------------------------------------------------------------------------
(* The governor over chunks that keep the window calm: every outcome       *)
(* recorded leaves the RateLimited fraction at or below the threshold, and *)
(* the chunks go on, so outcomes keep arriving and assess_and_adjust()     *)
(* keeps being called                                                      *)

\* count / len <= throttle_threshold_pct / 100, by cross-multiplication
Calm(g) ==
    Count(g.history, "RATE_LIMIT") * 100 * g.args.throttle_threshold_pct[2]
        <= g.args.throttle_threshold_pct[1] * Len(g.history)

CalmRecord ==
    /\ \E o \in RequestOutcome :
           Calm(record_outcome(governor, o)) /\ CallRecord(o)
    /\ UNCHANGED <<log, runVars>>

CalmAssess ==
    /\ governor' = assess_and_adjust(governor)
    /\ prev' = [op |-> "assess_and_adjust", arg |-> "-", g |-> governor]
    /\ UNCHANGED <<adjusts, log, runVars>>

NextCalm == CalmRecord \/ CalmAssess

\* the steps of CalmRecord and of a CalmAssess that acts, as prev shows them
Arrives ==
    \E o \in RequestOutcome :
        /\ Calm(record_outcome(governor, o))
        /\ prev' = [op |-> "record_outcome", arg |-> o, g |-> governor]
Assesses ==
    /\ ~TooFewOutcomes(governor)
    /\ prev' = [op |-> "assess_and_adjust", arg |-> "-", g |-> governor]

SpecCalm == InitGov /\ [][NextCalm]_vars /\ WF_prev(Arrives) /\ WF_prev(Assesses)

-----------------------------------------------------------------------------
(* The governor over chunks that keep the window rate-limited: every       *)
(* outcome recorded leaves the RateLimited fraction at or above the        *)
(* threshold                                                               *)

\* count / len >= throttle_threshold_pct / 100, by cross-multiplication
Stormy(g) ==
    Count(g.history, "RATE_LIMIT") * 100 * g.args.throttle_threshold_pct[2]
        >= g.args.throttle_threshold_pct[1] * Len(g.history)

StormRecord ==
    /\ \E o \in RequestOutcome :
           Stormy(record_outcome(governor, o)) /\ CallRecord(o)
    /\ UNCHANGED <<log, runVars>>

NextStorm == StormRecord \/ CalmAssess

\* the step of StormRecord as prev shows it
ArrivesLimited ==
    \E o \in RequestOutcome :
        /\ Stormy(record_outcome(governor, o))
        /\ prev' = [op |-> "record_outcome", arg |-> o, g |-> governor]

SpecStorm ==
    InitGov /\ [][NextStorm]_vars /\ WF_prev(ArrivesLimited) /\ WF_prev(Assesses)

-----------------------------------------------------------------------------
(* SteamScraper.run(): chunks of workers over the identifiers still absent *)
(* from the two output files                                               *)

all_ids == 1..NumIds

Range(f) == {f[i] : i \in 1..Len(f)}

\* (mutant) records still in the batches counted as processed
ProcessedWithPending ==
    Range(output_file) \cup Range(invalid_output_file)
        \cup Range(valid_data_batch) \cup Range(invalid_data_batch)

\* A file is the sequence of its lines that hold a record, each written as
\* the record's app id. A file cut short by a kill ends with one more entry:
\* 0 for a last line that is a piece of a record, or the negated id of a
\* last record that is whole but lacks its newline.
Torn(file) == file # << >> /\ file[Len(file)] <= 0
Front(file) == SubSeq(file, 1, Len(file) - 1)
\* the lines on which int(json.loads(line)['app_id']) succeeds
Parsed(file) ==
    {file[k] : k \in {j \in 1..Len(file) : file[j] > 0}}
        \cup {0 - file[k] : k \in {j \in 1..Len(file) : file[j] < 0}}

\* get_already_processed_ids over the two output files
get_already_processed_ids == Parsed(output_file) \cup Parsed(invalid_output_file)

\* (mutant) the n largest: the list sorted in descending order
FirstNDescending(S, n) == {x \in S : Cardinality({y \in S : y > x}) < n}

\* sorted(list(all_ids - processed_ids))[:n], as a set
FirstN(S, n) == {x \in S : Cardinality({y \in S : y < x}) < n}

\* What the three responses of one entity can be. Bodies are read only when
\* the three statuses pass, so they are left blank otherwise. Status 0 stands
\* for a request that gets no response: a timeout or a connection error.
Statuses == {200, 429, 403, 500, 0}
Responses ==
    { [status |-> <<a, b, c>>, captcha |-> k, data |-> d] :
        a \in Statuses, b \in Statuses, c \in Statuses,
        k \in BOOLEAN, d \in {"valid", "invalid", "none", "malformed"} }
ReadResponses ==
    { r \in Responses :
        (\E i \in 1..3 : r.status[i] # 200) => (~r.captcha /\ r.data = "none") }

\* the status loop of process_game_details: the first response that is not
\* a 200 decides
RECURSIVE StatusLoop(_)
StatusLoop(st) ==
    IF st = << >> THEN "ok"
    ELSE IF Head(st) = 429 THEN "RATE_LIMIT"
    ELSE IF Head(st) = 403 THEN "BANNED"
    ELSE IF Head(st) # 200 THEN "FAILURE"
    ELSE StatusLoop(Tail(st))

\* (mutant) every error let out of the pipeline as an exception
RaiseEveryError(r) ==
    IF \E i \in 1..3 : r.status[i] = 0 THEN "BANNED"
    ELSE IF StatusLoop(r.status) = "FAILURE" THEN "BANNED"
    ELSE IF StatusLoop(r.status) # "ok" THEN StatusLoop(r.status)
    ELSE IF r.data = "malformed" THEN "BANNED"
    ELSE IF r.captcha THEN "BANNED"
    ELSE "SUCCESS"

\* process_game_details: the outcome returned, or "BANNED" for IPBannedException
process_game_details(r) ==
    IF \E i \in 1..3 : r.status[i] = 0 THEN "FAILURE"
    ELSE IF StatusLoop(r.status) # "ok" THEN StatusLoop(r.status)
    ELSE IF r.data = "malformed" THEN "FAILURE"
    ELSE IF r.captcha THEN "BANNED"
    ELSE "SUCCESS"

\* (mutant) the file opened in mode 'w'
WriteOverwriting(file, data_batch, ok) ==
    IF ok THEN data_batch ELSE file

\* _write_batch_to_file: the lines are appended to the file; when the file
\* cannot be written (ok = FALSE) the IOError is caught and nothing is raised.
\* Appended to a file cut short, the first record joins the unfinished line
\* and the line they make holds no record.
write_batch_to_file(file, data_batch, ok) ==
    IF ~ok THEN file
    ELSE IF Torn(file) /\ data_batch # << >>
    THEN Front(file) \o Tail(data_batch)
    ELSE file \o data_batch

\* (mutant) finalize_processing that forgets the invalid batch
FinalizeValidOnly(okV, okI) ==
    /\ output_file' = IF valid_data_batch # << >>
                       THEN write_batch_to_file(output_file, valid_data_batch, okV)
                       ELSE output_file
    /\ valid_data_batch' = << >>
    /\ UNCHANGED <<invalid_output_file, invalid_data_batch>>

\* finalize_processing: each non-empty batch is written whatever its size
\* and then cleared; okV, okI tell whether the file can be written
finalize_processing(okV, okI) ==
    /\ output_file' = IF valid_data_batch # << >>
                       THEN write_batch_to_file(output_file, valid_data_batch, okV)
                       ELSE output_file
    /\ valid_data_batch' = << >>
    /\ invalid_output_file' =
           IF invalid_data_batch # << >>
           THEN write_batch_to_file(invalid_output_file, invalid_data_batch, okI)
           ELSE invalid_output_file
    /\ invalid_data_batch' = << >>

\* finalize_processing on files that can be written
FinalizeProcessing == finalize_processing(TRUE, TRUE)

\* (mutant) a record that fails validation is dropped
DropInvalidItem(batch, app_id, tag, of) ==
    IF tag = of /\ tag = "valid" THEN Append(batch, app_id) ELSE batch

\* process_and_validate_item: the record joins the batch of its tag
process_and_validate_item(batch, app_id, tag, of) ==
    IF tag = of THEN Append(batch, app_id) ELSE batch

\* (mutant) flushes only a batch that has grown past batch_size
FlushAboveBatchSize(v, i, okV, okI) ==
    LET batch_size == governor.args.chunk_size
    IN /\ IF Len(v) > batch_size
          THEN /\ output_file' = write_batch_to_file(output_file, v, okV)
               /\ valid_data_batch' = << >>
          ELSE output_file' = output_file /\ valid_data_batch' = v
       /\ IF Len(i) > batch_size
          THEN /\ invalid_output_file' =
                      write_batch_to_file(invalid_output_file, i, okI)
               /\ invalid_data_batch' = << >>
          ELSE /\ invalid_output_file' = invalid_output_file
               /\ invalid_data_batch' = i

\* flush_batches_if_needed with the batches holding v and i: a batch of
\* batch_size records or more is copied, cleared, and the copy written
flush_batches_if_needed(v, i, okV, okI) ==
    LET batch_size == governor.args.chunk_size
    IN /\ IF Len(v) >= batch_size
          THEN /\ output_file' = write_batch_to_file(output_file, v, okV)
               /\ valid_data_batch' = << >>
          ELSE output_file' = output_file /\ valid_data_batch' = v
       /\ IF Len(i) >= batch_size
          THEN /\ invalid_output_file' =
                      write_batch_to_file(invalid_output_file, i, okI)
               /\ invalid_data_batch' = << >>
          ELSE /\ invalid_output_file' = invalid_output_file
               /\ invalid_data_batch' = i

\* process_and_validate_item then flush_batches_if_needed, for one record,
\* on files that can be written
Enqueue(app_id, tag) ==
    flush_batches_if_needed(
        process_and_validate_item(valid_data_batch, app_id, tag, "valid"),
        process_and_validate_item(invalid_data_batch, app_id, tag, "invalid"),
        TRUE, TRUE)

\* Configurations and responses of the runs explored: the server answers 200,
\* 429 or 403 and appdetails carries no data for the entity ("none"), so the
\* output files keep the content they had when run() started.
RunArgs ==
    { a \in Args : /\ a.history_size \in {2, 3}
                   /\ a.min_concurrency = 2 /\ a.max_concurrency = 3
                   /\ a.min_delay = FromInt(3) /\ a.max_delay = FromInt(4) }
RunResponses ==
    { r \in ReadResponses :
        r.data = "none" /\ \A i \in 1..3 : r.status[i] \notin {500, 0} }

\* What worker() does with a response: the outcome of process_game_details,
\* the record it enqueued, and whether all three fetches were answered 429
Effect(r) ==
    [outcome |-> process_game_details(r),
     record |-> IF process_game_details(r) = "SUCCESS" THEN r.data ELSE "none",
     all429 |-> r.status = <<429, 429, 429>>]
RunEffects == { Effect(r) : r \in RunResponses }

\* an output file left by an earlier run, which stopped after the k smallest ids
RECURSIVE UpTo(_)
UpTo(k) == IF k = 0 THEN << >> ELSE Append(UpTo(k - 1), k)

InitRun ==
    /\ \E a \in RunArgs : governor = PerformanceGovernor(a)
    /\ adjusts = 0
    /\ prev = NoCall
    /\ log = << >>
    /\ pc = "loop"
    /\ tasks = {}
    /\ semaphore = << >>
    /\ bans = 0
    /\ \E k \in 0..NumIds : output_file = UpTo(k)
    /\ invalid_output_file = << >>
    /\ valid_data_batch = << >>
    /\ invalid_data_batch = << >>
    /\ chunk = NoChunk
    /\ attempt = NoAttempt
    /\ proc = NoProc
    /\ site = NoSite

\* the workers run() is waiting for
Awaited == {t \in tasks : pc = "gather" /\ t.gen = bans}
\* the workers inside "async with semaphore"
Holders(gen) == {t \in tasks : t.gen = gen /\ t.at # "gate"}

\* top of the while loop with work left: the chunk is built and its workers created
Launch ==
    /\ pc = "loop"
    /\ all_ids \ get_already_processed_ids # {}
    /\ LET ids_for_this_run ==
               FirstN(all_ids \ get_already_processed_ids, governor.args.chunk_size)
       IN /\ tasks' = tasks \cup
                 {[app_id |-> i, gen |-> bans, at |-> "gate"] : i \in ids_for_this_run}
          /\ chunk' = [phase |-> "running",
                       ids |-> ids_for_this_run,
                       start_state |-> governor.state,
                       start_concurrency |-> governor.current_concurrency,
                       all429 |-> TRUE,
                       others |-> FALSE]
    /\ semaphore' = [g \in 0..bans |->
                        IF g = bans THEN get_concurrency(governor) ELSE semaphore[g]]
    /\ pc' = "gather"
    /\ UNCHANGED <<governor, adjusts, prev, log, bans, output_file,
                   invalid_output_file, valid_data_batch, invalid_data_batch,
                   attempt, proc, site>>

\* (mutant) run() returning without the final flush
FinishWithoutFlush ==
    /\ pc = "loop"
    /\ all_ids \ get_already_processed_ids = {}
    /\ tasks' = {}
    /\ pc' = "done"
    /\ UNCHANGED <<governor, adjusts, prev, log, semaphore, bans, chunk,
                   output_file, invalid_output_file, valid_data_batch,
                   invalid_data_batch, attempt, proc, site>>

\* top of the while loop with nothing left: break, final flush, return
Finish ==
    /\ pc = "loop"
    /\ all_ids \ get_already_processed_ids = {}
    /\ FinalizeProcessing
    /\ tasks' = {}
    /\ pc' = "done"
    /\ UNCHANGED <<governor, adjusts, prev, log, semaphore, bans, chunk,
                   attempt, proc, site>>

\* async with semaphore, the delay, then the three requests of the entity are sent
Acquire(t) ==
    /\ t.at = "gate"
    /\ Cardinality(Holders(t.gen)) < semaphore[t.gen]
    /\ tasks' = (tasks \ {t}) \cup {[t EXCEPT !.at = "fetch"]}
    /\ UNCHANGED <<govVars, pc, semaphore, bans, output_file, invalid_output_file,
                   valid_data_batch, invalid_data_batch, chunk, attempt, proc, site>>

Observe(t, e) ==
    IF chunk.phase # "running" THEN chunk
    ELSE IF t \in Awaited
    THEN [chunk EXCEPT !.all429 = @ /\ e.all429]
    ELSE [chunk EXCEPT !.others = TRUE]

\* the three responses arrive: the rest of process_game_details and of worker()
Complete(t, e) ==
    LET outcome == e.outcome IN
    /\ t.at = "fetch"
    /\ tasks' = tasks \ {t}
    /\ IF outcome = "BANNED"
       THEN /\ bans < MaxBans \/ t \notin Awaited
            /\ IF t \in Awaited
               THEN pc' = "banned" /\ bans' = bans + 1
               ELSE UNCHANGED <<pc, bans>>
            /\ chunk' = chunk
            /\ UNCHANGED <<governor, output_file, invalid_output_file,
                           valid_data_batch, invalid_data_batch>>
       ELSE /\ governor' = record_outcome(governor, outcome)
            /\ IF e.record \in {"valid", "invalid"}
               THEN Enqueue(t.app_id, e.record)
               ELSE UNCHANGED <<output_file, invalid_output_file,
                                valid_data_batch, invalid_data_batch>>
            /\ chunk' = Observe(t, e)
            /\ UNCHANGED <<pc, bans>>
    /\ UNCHANGED <<adjusts, prev, log, semaphore>>

\* (mutant) the adjustment made as soon as one worker is done
AdjustEarly ==
    /\ pc = "gather"
    /\ Cardinality(Awaited) < Cardinality(chunk.ids)
    /\ TooFewOutcomes(governor) \/ adjusts < MaxAdjust
    /\ governor' = assess_and_adjust(governor)
    /\ adjusts' = IF TooFewOutcomes(governor) THEN adjusts ELSE adjusts + 1
    /\ chunk' = [chunk EXCEPT !.phase = "adjusted"]
    /\ pc' = "loop"
    /\ UNCHANGED <<prev, log, tasks, semaphore, bans, output_file,
                   invalid_output_file, valid_data_batch, invalid_data_batch,
                   attempt, proc, site>>

\* gather() returns with every worker of the chunk finished
Adjust ==
    /\ pc = "gather"
    /\ Awaited = {}
    /\ TooFewOutcomes(governor) \/ adjusts < MaxAdjust
    /\ governor' = assess_and_adjust(governor)
    /\ adjusts' = IF TooFewOutcomes(governor) THEN adjusts ELSE adjusts + 1
    /\ chunk' = [chunk EXCEPT !.phase = "adjusted"]
    /\ pc' = "loop"
    /\ UNCHANGED <<prev, log, tasks, semaphore, bans, output_file,
                   invalid_output_file, valid_data_batch, invalid_data_batch,
                   attempt, proc, site>>

\* except IPBannedException: flush, reset, start of the countdown
Hibernate ==
    /\ pc = "banned"
    /\ FinalizeProcessing
    /\ governor' = reset_after_ban(governor)
    /\ chunk' = [phase |-> "aborted", ids |-> chunk.ids]
    /\ pc' = "hibernate"
    /\ UNCHANGED <<adjusts, prev, log, tasks, semaphore, bans, attempt, proc, site>>

\* the countdown is over
Wake ==
    /\ pc = "hibernate"
    /\ pc' = "loop"
    /\ attempt' = NoAttempt
    /\ UNCHANGED <<govVars, tasks, semaphore, bans, output_file, invalid_output_file,
                   valid_data_batch, invalid_data_batch, chunk, proc, site>>

Worker ==
    \E t \in tasks :
        \/ Acquire(t)
        \/ \E e \in RunEffects : Complete(t, e) /\ UNCHANGED <<attempt, proc, site>>

NextRun == Launch \/ Finish \/ Worker \/ Adjust \/ Hibernate \/ Wake

SpecRun == InitRun /\ [][NextRun]_vars

-----------------------------------------------------------------------------
(* process_game_details() on its own: one entity, any three responses *)

FetchArgs ==
    { a \in RunArgs : /\ a.history_size = 2
                      /\ a.throttle_threshold_pct = DefaultThrottlePct }

InitFetch ==
    /\ \E a \in FetchArgs : governor = PerformanceGovernor(a)
    /\ adjusts = 0
    /\ prev = NoCall
    /\ log = << >>
    /\ RunIdle

\* one call of process_game_details(app_id, session) answered by r
FetchOne(app_id, r) ==
    /\ attempt = NoAttempt
    /\ attempt' = [app_id |-> app_id, resp |-> r,
                   outcome |-> process_game_details(r)]
    /\ IF process_game_details(r) = "SUCCESS" /\ r.data \in {"valid", "invalid"}
       THEN Enqueue(app_id, r.data)
       ELSE UNCHANGED <<output_file, invalid_output_file,
                        valid_data_batch, invalid_data_batch>>
    /\ UNCHANGED <<govVars, pc, tasks, semaphore, bans, chunk, proc, site>>

NextFetch == \E app_id \in all_ids, r \in Responses : FetchOne(app_id, r)

SpecFetch == InitFetch /\ [][NextFetch]_vars

-----------------------------------------------------------------------------
(* run() over entities that yield records: the three answers are 200 and   *)
(* carry a record that passes validation or one that fails it, or the      *)
(* first answer is a 403; the files can be written.                        *)

LedgerChunkSizes == { 1, 2 }
LedgerArgs ==
    { [b EXCEPT !.chunk_size = k] :
        b \in { a \in Args : /\ a.history_size = 1
                             /\ a.min_concurrency = 2 /\ a.max_concurrency = 3
                             /\ a.min_delay = FromInt(3) /\ a.max_delay = FromInt(4)
                             /\ a.throttle_threshold_pct = DefaultThrottlePct },
        k \in LedgerChunkSizes }
LedgerResponses ==
    { r \in ReadResponses :
        \/ /\ r.status = <<200, 200, 200>> /\ ~r.captcha
           /\ r.data \in {"valid", "invalid"}
        \/ r.status = <<403, 200, 200>> }

InitLedger ==
    /\ \E a \in LedgerArgs : governor = PerformanceGovernor(a)
    /\ adjusts = 0
    /\ prev = NoCall
    /\ log = << >>
    /\ pc = "loop"
    /\ tasks = {}
    /\ semaphore = << >>
    /\ bans = 0
    /\ \E k \in 0..NumIds : output_file = UpTo(k)
    /\ invalid_output_file = << >>
    /\ valid_data_batch = << >>
    /\ invalid_data_batch = << >>
    /\ chunk = NoChunk
    /\ attempt = NoAttempt
    /\ proc = [op |-> "run", start |-> output_file,
               valid |-> << >>, invalid |-> << >>]
    /\ site = NoSite

LedgerEffects == { Effect(r) : r \in LedgerResponses }

\* what is known when worker t raises IPBannedException into gather(): the
\* entity it was fetching and the entities of the chunk already completed
Blocked(t) ==
    [app_id |-> t.app_id,
     done |-> chunk.ids \ {u.app_id : u \in Awaited}]

\* the records handed to process_and_validate_item() since run() was called
Enqueued(t, e) ==
    IF e.outcome = "BANNED" THEN proc
    ELSE IF e.record = "valid"
    THEN [proc EXCEPT !.valid = Append(@, t.app_id)]
    ELSE IF e.record = "invalid"
    THEN [proc EXCEPT !.invalid = Append(@, t.app_id)]
    ELSE proc

LedgerWorker ==
    \E t \in tasks :
        \/ Acquire(t)
        \/ \E e \in LedgerEffects :
              /\ Complete(t, e)
              /\ attempt' = IF e.outcome = "BANNED" /\ t \in Awaited
                             THEN Blocked(t) ELSE attempt
              /\ proc' = Enqueued(t, e)
    /\ UNCHANGED site

NextLedger == Launch \/ Finish \/ LedgerWorker \/ Adjust \/ Hibernate \/ Wake

SpecLedger == InitLedger /\ [][NextLedger]_vars

-----------------------------------------------------------------------------
(* The same runs for as long as they last: every chunk boundary adjusts    *)
(* the governor, and the program does not stop while a step can be taken  *)
(* (the event loop runs a ready coroutine, a request is answered, a sleep  *)
(* ends).                                                                  *)

\* gather() returns with every worker of the chunk finished
AdjustAlways ==
    /\ pc = "gather"
    /\ Awaited = {}
    /\ governor' = assess_and_adjust(governor)
    /\ chunk' = [chunk EXCEPT !.phase = "adjusted"]
    /\ pc' = "loop"
    /\ UNCHANGED <<adjusts, prev, log, tasks, semaphore, bans, output_file,
                   invalid_output_file, valid_data_batch, invalid_data_batch,
                   attempt, proc, site>>

LiveWorker ==
    \E t \in tasks :
        \/ Acquire(t)
        \/ \E e \in LedgerEffects : Complete(t, e) /\ UNCHANGED <<attempt, proc, site>>

NextLive == Launch \/ Finish \/ LiveWorker \/ AdjustAlways \/ Hibernate \/ Wake

\* the step of AdjustAlways as pc shows it: run() goes on after the gather
Resumes == pc = "gather" /\ Awaited = {} /\ pc' = "loop"

\* the event loop runs every coroutine that is ready: the workers and the
\* steps of run() are not postponed for ever
SpecLive ==
    /\ InitLedger
    /\ [][NextLive]_vars
    /\ WF_vars(Launch \/ Finish \/ LiveWorker \/ Hibernate \/ Wake)
    /\ WF_pc(Resumes)

-----------------------------------------------------------------------------
(* run() over fetches that fail: an unexpected status, a request without   *)
(* response, a payload that cannot be parsed or makes the extractor raise; *)
(* the other fetches succeed without data or are answered 403              *)

FailArgs == { a \in FetchArgs : a.chunk_size \in ChunkSizes }
FailResponses ==
    { r \in ReadResponses :
        /\ ~r.captcha /\ r.data \in {"none", "malformed"}
        /\ r.status \in { <<200, 200, 200>>, <<500, 200, 200>>, <<200, 200, 500>>,
                          <<200, 0, 200>>, <<403, 200, 200>> } }

InitFail ==
    /\ \E a \in FailArgs : governor = PerformanceGovernor(a)
    /\ adjusts = 0
    /\ prev = NoCall
    /\ log = << >>
    /\ pc = "loop"
    /\ tasks = {}
    /\ semaphore = << >>
    /\ bans = 0
    /\ output_file = << >>
    /\ invalid_output_file = << >>
    /\ valid_data_batch = << >>
    /\ invalid_data_batch = << >>
    /\ chunk = NoChunk
    /\ attempt = NoAttempt
    /\ proc = NoProc
    /\ site = NoSite

FailWorker ==
    \E t \in tasks :
        \/ Acquire(t)
        \/ \E r \in FailResponses :
              /\ Complete(t, Effect(r))
              /\ attempt' = [app_id |-> t.app_id, resp |-> r,
                             outcome |-> process_game_details(r)]
              /\ UNCHANGED <<proc, site>>

NextFail == Launch \/ FailWorker \/ Adjust \/ Hibernate \/ Wake

SpecFail == InitFail /\ [][NextFail]_vars

-----------------------------------------------------------------------------
(* run() with flush_batches_if_needed() taken step by step: the lock is    *)
(* acquired, a batch that has reached batch_size is copied and cleared,    *)
(* and the copy is written line after line by a thread while the event     *)
(* loop runs other coroutines; finalize_processing() is one step of run(). *)
(* A worker is at "lock" while it waits for the lock, at "write_valid" or  *)
(* "write_invalid" while it holds the lock and its thread writes its data. *)

LockHolders == {t \in tasks : t.at \in {"write_valid", "write_invalid"}}
LockWaiters == {t \in tasks : t.at = "lock"}

\* worker() after process_game_details returned SUCCESS
Return(t) ==
    /\ tasks' = tasks \ {t}
    /\ governor' = record_outcome(governor, "SUCCESS")
    /\ chunk' = Observe(t, [all429 |-> FALSE])

\* second test of flush_batches_if_needed, the invalid batch holding i
CheckInvalid(t, i) ==
    IF Len(i) >= governor.args.chunk_size
    THEN /\ invalid_data_batch' = << >>
         /\ tasks' = (tasks \ {t}) \cup
               {[app_id |-> t.app_id, gen |-> t.gen, at |-> "write_invalid",
                 data |-> i]}
         /\ UNCHANGED <<governor, chunk>>
    ELSE /\ invalid_data_batch' = i
         /\ Return(t)

\* the lock is taken: first test of flush_batches_if_needed, the batches
\* holding v and i
CheckValid(t, v, i) ==
    IF Len(v) >= governor.args.chunk_size
    THEN /\ valid_data_batch' = << >>
         /\ invalid_data_batch' = i
         /\ tasks' = (tasks \ {t}) \cup
               {[app_id |-> t.app_id, gen |-> t.gen, at |-> "write_valid",
                 data |-> v]}
         /\ UNCHANGED <<governor, chunk>>
    ELSE /\ valid_data_batch' = v
         /\ CheckInvalid(t, i)

\* the responses arrive: a 403 raises; a record joins its batch and the
\* worker enters flush_batches_if_needed, at once when the lock is free
Answer(t, e) ==
    /\ t.at = "fetch"
    /\ IF e.outcome = "BANNED"
       THEN Complete(t, e)
       ELSE LET v == process_and_validate_item(valid_data_batch, t.app_id,
                                               e.record, "valid")
                i == process_and_validate_item(invalid_data_batch, t.app_id,
                                               e.record, "invalid")
            IN /\ IF LockHolders = {} /\ LockWaiters = {}
                  THEN CheckValid(t, v, i)
                  ELSE /\ valid_data_batch' = v
                       /\ invalid_data_batch' = i
                       /\ tasks' = (tasks \ {t}) \cup {[t EXCEPT !.at = "lock"]}
                       /\ UNCHANGED <<governor, chunk>>
               /\ UNCHANGED <<adjusts, prev, log, pc, semaphore, bans,
                              output_file, invalid_output_file>>

\* a waiting worker gets the lock
Enter(t) ==
    /\ t.at = "lock"
    /\ LockHolders = {}
    /\ CheckValid(t, valid_data_batch, invalid_data_batch)
    /\ UNCHANGED <<adjusts, prev, log, pc, semaphore, bans,
                   output_file, invalid_output_file>>

\* the thread of _write_batch_to_file writes its next line
WriteLine(t) ==
    /\ t.at \in {"write_valid", "write_invalid"}
    /\ t.data # << >>
    /\ tasks' = (tasks \ {t}) \cup {[t EXCEPT !.data = Tail(@)]}
    /\ IF t.at = "write_valid"
       THEN /\ output_file' =
                   write_batch_to_file(output_file, <<Head(t.data)>>, TRUE)
            /\ UNCHANGED invalid_output_file
       ELSE /\ invalid_output_file' =
                   write_batch_to_file(invalid_output_file, <<Head(t.data)>>, TRUE)
            /\ UNCHANGED output_file
    /\ UNCHANGED <<govVars, pc, semaphore, bans, valid_data_batch,
                   invalid_data_batch, chunk>>

\* the thread has ended: the coroutine goes on to the second test, or leaves
\* flush_batches_if_needed and releases the lock
WriteDone(t) ==
    /\ t.at \in {"write_valid", "write_invalid"}
    /\ t.data = << >>
    /\ IF t.at = "write_valid"
       THEN CheckInvalid(t, invalid_data_batch)
       ELSE Return(t) /\ UNCHANGED invalid_data_batch
    /\ UNCHANGED <<adjusts, prev, log, pc, semaphore, bans, valid_data_batch,
                   output_file, invalid_output_file>>

LockWorker ==
    /\ \E t \in tasks :
          \/ Acquire(t)
          \/ \E e \in LedgerEffects : Answer(t, e)
          \/ Enter(t)
          \/ WriteLine(t)
          \/ WriteDone(t)
    /\ UNCHANGED <<attempt, proc, site>>

\* the lines that the thread of a worker at stage at has yet to write
Unwritten(at) ==
    IF \E t \in tasks : t.at = at
    THEN (CHOOSE t \in tasks : t.at = at).data
    ELSE << >>

\* break, final flush, return; the thread of a write still under way ends
\* its write before the process ends
FinishLock ==
    /\ pc = "loop"
    /\ all_ids \ get_already_processed_ids = {}
    /\ output_file' =
           write_batch_to_file(
               write_batch_to_file(output_file, valid_data_batch, TRUE),
               Unwritten("write_valid"), TRUE)
    /\ invalid_output_file' =
           write_batch_to_file(
               write_batch_to_file(invalid_output_file, invalid_data_batch, TRUE),
               Unwritten("write_invalid"), TRUE)
    /\ valid_data_batch' = << >>
    /\ invalid_data_batch' = << >>
    /\ tasks' = {}
    /\ pc' = "done"
    /\ UNCHANGED <<governor, adjusts, prev, log, semaphore, bans, chunk,
                   attempt, proc, site>>

NextLock == Launch \/ FinishLock \/ LockWorker \/ Adjust \/ Hibernate \/ Wake

\* a first run: the output files do not exist yet
InitLock ==
    /\ \E a \in LedgerArgs : governor = PerformanceGovernor(a)
    /\ adjusts = 0
    /\ prev = NoCall
    /\ log = << >>
    /\ pc = "loop"
    /\ tasks = {}
    /\ semaphore = << >>
    /\ bans = 0
    /\ output_file = << >>
    /\ invalid_output_file = << >>
    /\ valid_data_batch = << >>
    /\ invalid_data_batch = << >>
    /\ chunk = NoChunk
    /\ attempt = NoAttempt
    /\ proc = NoProc
    /\ site = NoSite

SpecLock == InitLock /\ [][NextLock]_vars

-----------------------------------------------------------------------------
(* The program from its start: the catalog and the schema it finds, then   *)
(* run(), with the process killed at any point and started again. Each     *)
(* entity yields the same kind of record at every fetch (site).            *)

\* what the path args.source_file leads to, and what "schema.json" leads to
SourceFiles == {"missing", "denied", "not_json", "no_ids", "ok"}
SchemaFiles == {"missing", "not_json", "denied", "ok"}

\* discover_all_app_ids_from_json: the ids of the catalog, or the empty set
\* when the file is missing, cannot be read or parsed, or holds no store URL
discover_all_app_ids_from_json(source_file) ==
    IF source_file = "ok" THEN all_ids ELSE {}

\* _load_schema: the schema, None when the file is missing or is not JSON;
\* any other error of open() leaves the constructor as an exception
load_schema(schema_file) ==
    CASE schema_file = "ok" -> "schema"
      [] schema_file \in {"missing", "not_json"} -> "None"
      [] OTHER -> "raises"

RestartArgs ==
    { [x \in DOMAIN a \cup {"source_file", "schema_file"} |->
          IF x = "source_file" THEN src
          ELSE IF x = "schema_file" THEN sch ELSE a[x]] :
        a \in LedgerArgs, src \in SourceFiles, sch \in SchemaFiles }

InitRestart ==
    /\ \E a \in RestartArgs : governor = PerformanceGovernor(a)
    /\ adjusts = 0
    /\ prev = NoCall
    /\ log = << >>
    /\ pc = "start"
    /\ tasks = {}
    /\ semaphore = << >>
    /\ bans = 0
    /\ \E k \in 0..NumIds : output_file = UpTo(k)
    /\ invalid_output_file = << >>
    /\ valid_data_batch = << >>
    /\ invalid_data_batch = << >>
    /\ chunk = NoChunk
    /\ attempt = NoAttempt
    /\ proc = [op |-> "run", start |-> output_file, kills |-> {}]
    /\ site \in [all_ids -> {"valid", "invalid"}]

\* (mutant) run() that does not look at the schema
StartWithoutSchemaTest ==
    /\ pc = "start"
    /\ pc' = IF discover_all_app_ids_from_json(governor.args.source_file) = {}
             THEN "returned" ELSE "loop"
    /\ UNCHANGED <<govVars, tasks, semaphore, bans, output_file, invalid_output_file,
                   valid_data_batch, invalid_data_batch, chunk, attempt, proc, site>>

\* SteamScraper(args) then the first two lines of run()
Start ==
    /\ pc = "start"
    /\ pc' = IF load_schema(governor.args.schema_file) = "raises"
             THEN "raised"
             ELSE IF \/ discover_all_app_ids_from_json(governor.args.source_file) = {}
                     \/ load_schema(governor.args.schema_file) = "None"
             THEN "returned"
             ELSE "loop"
    /\ UNCHANGED <<govVars, tasks, semaphore, bans, output_file, invalid_output_file,
                   valid_data_batch, invalid_data_batch, chunk, attempt, proc, site>>

\* a fetch is answered by the record of the entity or, in the first chunks
\* of a process, by a 403
RestartWorker ==
    \E t \in tasks :
        \/ Acquire(t)
        \/ \E e \in LedgerEffects :
              /\ (e.outcome = "BANNED" /\ bans = 0) \/ e.record = site[t.app_id]
              /\ Complete(t, e)
              /\ UNCHANGED <<attempt, proc, site>>

\* The process is killed and the program started again: what was in memory
\* is gone, the files stay as they are.
Restart(how) ==
    /\ governor' = PerformanceGovernor(governor.args)
    /\ adjusts' = 0
    /\ tasks' = {}
    /\ semaphore' = << >>
    /\ bans' = 0
    /\ valid_data_batch' = << >>
    /\ invalid_data_batch' = << >>
    /\ chunk' = NoChunk
    /\ attempt' = NoAttempt
    /\ proc' = [proc EXCEPT !.kills = @ \cup {how}]
    /\ pc' = "start"
    /\ UNCHANGED <<prev, log, site>>

Running == pc \in {"loop", "gather", "banned", "hibernate"}

\* killed while no write is under way
Kill ==
    /\ Running
    /\ Restart(IF valid_data_batch = << >> /\ invalid_data_batch = << >>
               THEN "clean" ELSE "lost")
    /\ UNCHANGED <<output_file, invalid_output_file>>

\* What a file can be when the process is killed while _write_batch_to_file
\* appends data_batch to it: some of the records are written, then the file
\* ends at a line end, inside the next record, or before its newline.
KilledWrite(file, data_batch) ==
    { IF k = 0 /\ tl = "none" THEN file
      ELSE IF k = 0 /\ Torn(file) THEN Append(Front(file), 0)
      ELSE write_batch_to_file(file, SubSeq(data_batch, 1, k), TRUE)
               \o (CASE tl = "none" -> << >>
                     [] tl = "piece" -> <<0>>
                     [] tl = "whole" -> <<0 - data_batch[k + 1]>>) :
        k \in 0..(Len(data_batch) - 1), tl \in {"none", "piece", "whole"} }

\* killed during the write of a threshold flush
KillInFlush ==
    /\ Running
    /\ \E t \in tasks :
         LET v == process_and_validate_item(valid_data_batch, t.app_id,
                                            site[t.app_id], "valid")
             i == process_and_validate_item(invalid_data_batch, t.app_id,
                                            site[t.app_id], "invalid")
         IN /\ t.at = "fetch"
            /\ \/ /\ Len(v) >= governor.args.chunk_size
                  /\ output_file' \in KilledWrite(output_file, v)
                  /\ UNCHANGED invalid_output_file
               \/ /\ Len(i) >= governor.args.chunk_size
                  /\ invalid_output_file' \in KilledWrite(invalid_output_file, i)
                  /\ UNCHANGED output_file
    /\ Restart("write")

\* killed during a write of finalize_processing, at hibernation or at the end
KillInFinalize ==
    /\ pc = "banned" \/ (pc = "loop" /\ all_ids \ get_already_processed_ids = {})
    /\ \/ /\ valid_data_batch # << >>
          /\ output_file' \in KilledWrite(output_file, valid_data_batch)
          /\ UNCHANGED invalid_output_file
       \/ /\ invalid_data_batch # << >>
          /\ output_file' = IF valid_data_batch # << >>
                            THEN write_batch_to_file(output_file,
                                                     valid_data_batch, TRUE)
                            ELSE output_file
          /\ invalid_output_file' \in
                 KilledWrite(invalid_output_file, invalid_data_batch)
    /\ Restart("write")

NextRestart ==
    \/ Start \/ Launch \/ Finish \/ RestartWorker \/ Adjust \/ Hibernate \/ Wake
    \/ Kill \/ KillInFlush \/ KillInFinalize

SpecRestart == InitRestart /\ [][NextRestart]_vars

-----------------------------------------------------------------------------
(* get_already_processed_ids on its own, over files of any content. A line *)
(* is known by what reading it does: a record with an integer app_id; an   *)
(* app_id written as a string of digits or as a float; a line that is not  *)
(* JSON (cut short, blank, two records joined); a JSON object without      *)
(* app_id, or with app_id null or a word; a line cut inside a multi-byte   *)
(* character, which the utf-8 reader of the file cannot decode.            *)

LedgerLines ==
    [kind : {"record", "digits_id", "float_id"}, app_id : all_ids]
        \cup [kind : {"not_json", "no_field", "null_id", "word_id", "cut_in_char"},
              app_id : {0}]

\* int(json.loads(line)['app_id']) inside the try: the ids added, none when
\* an exception of the except clause is raised; int() truncates a float and
\* parses a string of digits
ScanLine(line) ==
    IF line.kind \in {"record", "digits_id", "float_id"} THEN {line.app_id}
    ELSE {}

\* "for line in f": the lines read in order; a line that cannot be decoded
\* raises UnicodeDecodeError out of the loop, in the for statement itself
RECURSIVE ScanFile(_, _)
ScanFile(lines, processed_ids) ==
    IF lines = << >> THEN [raised |-> FALSE, ids |-> processed_ids]
    ELSE IF Head(lines).kind = "cut_in_char" THEN [raised |-> TRUE, ids |-> {}]
    ELSE ScanFile(Tail(lines), processed_ids \cup ScanLine(Head(lines)))

\* get_already_processed_ids(filenames): a file that does not exist is
\* passed over
RECURSIVE ScanFiles(_, _)
ScanFiles(files, processed_ids) ==
    IF files = << >> THEN [raised |-> FALSE, ids |-> processed_ids]
    ELSE IF ~Head(files).exists THEN ScanFiles(Tail(files), processed_ids)
    ELSE IF ScanFile(Head(files).lines, processed_ids).raised
    THEN [raised |-> TRUE, ids |-> {}]
    ELSE ScanFiles(Tail(files), ScanFile(Head(files).lines, processed_ids).ids)

LinesUpTo(n) == UNION {[1..k -> LedgerLines] : k \in 0..n}

InitScan ==
    /\ \E a \in RunArgs : governor = PerformanceGovernor(a)
    /\ adjusts = 0
    /\ prev = NoCall
    /\ log = << >>
    /\ pc = "loop"
    /\ tasks = {}
    /\ semaphore = << >>
    /\ bans = 0
    /\ output_file \in [exists : BOOLEAN, lines : LinesUpTo(MaxLines)]
    /\ invalid_output_file \in [exists : BOOLEAN, lines : LinesUpTo(1)]
    /\ ~output_file.exists => output_file.lines = << >>
    /\ ~invalid_output_file.exists => invalid_output_file.lines = << >>
    /\ valid_data_batch = << >>
    /\ invalid_data_batch = << >>
    /\ chunk = NoChunk
    /\ attempt = NoAttempt
    /\ proc = NoProc
    /\ site = NoSite

\* line 212 of run(): the scan of the two output files
Scan ==
    /\ pc = "loop"
    /\ proc.op = "none"
    /\ proc' = [op |-> "get_already_processed_ids",
                result |-> ScanFiles(<<output_file, invalid_output_file>>, {})]
    /\ pc' = IF proc'.result.raised THEN "raised" ELSE "loop"
    /\ UNCHANGED <<govVars, tasks, semaphore, bans, output_file, invalid_output_file,
                   valid_data_batch, invalid_data_batch, chunk, attempt, site>>

SpecScan == InitScan /\ [][Scan]_vars

-----------------------------------------------------------------------------
(* The delay-manager variant (src/SteamScraper.py): the worker of one       *)
(* entity, its store page fetched by fetch_with_retries and its two JSON   *)
(* documents by fetch_json, both under asyncio.gather. A fetch returns     *)
(* "None", a payload, or "IPBanned" when it raises IPBannedException;      *)
(* recorded lists its calls to the delay manager.                          *)

Retries == 3        \* fetch_json(url, retries = 3)

\* a response to the store page request; its body is read only on a 200
PageAnswers ==
    { a \in [status : Statuses, captcha : BOOLEAN] : a.status # 200 => ~a.captcha }

\* fetch_with_retries: a 429 is retried once after 90 s, and the retry
\* response goes through raise_for_status() only, whose ClientResponseError
\* is caught with the network errors
fetch_with_retries(first, retry) ==
    IF first.status = 0 THEN [result |-> "None", recorded |-> << >>]
    ELSE IF first.status = 429 THEN
        IF retry.status # 200
        THEN [result |-> "None", recorded |-> <<"rate_limit">>]
        ELSE [result |-> IF retry.captcha THEN "captcha_page" ELSE "page",
              recorded |-> <<"rate_limit", "success">>]
    ELSE IF first.status = 403 THEN [result |-> "IPBanned", recorded |-> << >>]
    ELSE IF first.status # 200 THEN [result |-> "None", recorded |-> << >>]
    ELSE IF first.captcha THEN [result |-> "IPBanned", recorded |-> << >>]
    ELSE [result |-> "page", recorded |-> <<"success">>]

\* the answers one fetch_json call can get, one per iteration of its loop;
\* the body of a 200 is a document, an empty document or not JSON. Only a
\* 429 is followed by another request: the answers after any other one are
\* never asked for, and are written as copies of it.
JsonAnswers ==
    { answers \in
        [1..Retries ->
            { a \in [status : Statuses, body : {"json", "empty", "malformed"}] :
                a.status # 200 => a.body = "json" }] :
        \A i \in 1..(Retries - 1) :
            answers[i].status # 429 => answers[i + 1] = answers[i] }

\* (mutant) the loop started again after the last 429
RECURSIVE FetchJsonUnbounded(_, _, _)
FetchJsonUnbounded(answers, i, sofar) ==
    LET a == answers[IF i > Retries THEN Retries ELSE i]
        here == [sofar EXCEPT !.attempts = i]
    IN IF i > 2 * Retries THEN [here EXCEPT !.attempts = i - 1]
       ELSE IF a.status = 0 THEN here
       ELSE IF a.status = 200 THEN
           [here EXCEPT !.recorded = Append(@, "success"),
                        !.result = IF a.body = "malformed" THEN "None" ELSE a.body]
       ELSE IF a.status = 429 THEN
           FetchJsonUnbounded(answers, i + 1,
               [here EXCEPT !.recorded = Append(@, "rate_limit"),
                            !.waits = Append(@, i * 30)])
       ELSE IF a.status = 403 THEN [here EXCEPT !.result = "IPBanned"]
       ELSE here

\* fetch_json: "for i in range(retries)", i counted from 1 here
RECURSIVE fetch_json(_, _, _)
fetch_json(answers, i, sofar) ==
    IF i > Retries THEN sofar
    ELSE LET a == answers[i]
             here == [sofar EXCEPT !.attempts = i]
         IN IF a.status = 0 THEN here
            ELSE IF a.status = 200 THEN
                [here EXCEPT !.recorded = Append(@, "success"),
                             !.result = IF a.body = "malformed" THEN "None" ELSE a.body]
            ELSE IF a.status = 429 THEN
                fetch_json(answers, i + 1,
                    [here EXCEPT !.recorded = Append(@, "rate_limit"),
                                 !.waits = Append(@, i * 30)])
            ELSE IF a.status = 403 THEN [here EXCEPT !.result = "IPBanned"]
            ELSE here

NoFetch == [result |-> "None", attempts |-> 0, waits |-> << >>, recorded |-> << >>]

\* this variant has no governor: the variable keeps one value throughout
InitLegacy ==
    /\ governor = PerformanceGovernor(CHOOSE a \in RunArgs : TRUE)
    /\ adjusts = 0
    /\ prev = NoCall
    /\ log = << >>
    /\ pc = "loop"
    /\ tasks = {}
    /\ semaphore = << >>
    /\ bans = 0
    /\ output_file = << >>
    /\ invalid_output_file = << >>
    /\ valid_data_batch = << >>
    /\ invalid_data_batch = << >>
    /\ chunk = NoChunk
    /\ attempt = NoAttempt
    /\ proc = NoProc
    /\ site \in [{1} -> {"valid", "invalid"}]

\* the entity is in remaining_ids: its worker is created and starts its gather
LegacyLaunch ==
    /\ pc = "loop"
    /\ 1 \notin Range(output_file) \cup Range(invalid_output_file)
    /\ valid_data_batch = << >> /\ invalid_data_batch = << >>
    /\ tasks' = {[app_id |-> 1, store_html |-> "pending",
                  details |-> "pending", reviews |-> "pending"]}
    /\ pc' = "gather"
    /\ attempt' = NoAttempt
    /\ UNCHANGED <<govVars, semaphore, bans, output_file, invalid_output_file,
                   valid_data_batch, invalid_data_batch, chunk, proc, site>>

\* fetch_with_retries ends
FetchPage ==
    \E t \in tasks, first \in PageAnswers, retry \in PageAnswers :
        /\ t.store_html = "pending"
        /\ first.status # 429 => retry = first
        /\ tasks' = {[t EXCEPT !.store_html = fetch_with_retries(first, retry).result]}
        /\ attempt' = [op |-> "fetch_with_retries", first |-> first, retry |-> retry,
                       call |-> fetch_with_retries(first, retry)]
        /\ UNCHANGED <<govVars, pc, semaphore, bans, output_file, invalid_output_file,
                       valid_data_batch, invalid_data_batch, chunk, proc, site>>

\* one of the two fetch_json calls of fetch_steam_api_data_async ends
FetchApi ==
    \E t \in tasks, url \in {"details", "reviews"}, answers \in JsonAnswers :
        /\ t[url] = "pending"
        /\ tasks' = {[t EXCEPT ![url] = fetch_json(answers, 1, NoFetch).result]}
        /\ attempt' = [op |-> "fetch_json", answers |-> answers,
                       call |-> fetch_json(answers, 1, NoFetch)]
        /\ UNCHANGED <<govVars, pc, semaphore, bans, output_file, invalid_output_file,
                       valid_data_batch, invalid_data_batch, chunk, proc, site>>

\* the gather of process_game_details ends, by the first IPBannedException
\* or with the three results, and the worker ends with it
LegacyProcess ==
    \E t \in tasks :
        LET results == {t.store_html, t.details, t.reviews} IN
        /\ "IPBanned" \in results \/ "pending" \notin results
        /\ tasks' = {}
        /\ IF "IPBanned" \in results
           THEN /\ pc' = "banned"
                /\ attempt' = [op |-> "process_game_details", task |-> t,
                               outcome |-> "IPBanned"]
                /\ UNCHANGED <<valid_data_batch, invalid_data_batch>>
           ELSE IF t.details # "json" \/ t.reviews # "json" \/ t.store_html = "None"
           THEN /\ pc' = "loop"
                /\ attempt' = [op |-> "process_game_details", task |-> t,
                               outcome |-> "incomplete"]
                /\ UNCHANGED <<valid_data_batch, invalid_data_batch>>
           ELSE /\ pc' = "recorded"
                /\ attempt' = [op |-> "process_game_details", task |-> t,
                               outcome |-> "recorded"]
                /\ valid_data_batch' =
                       process_and_validate_item(valid_data_batch, 1, site[1], "valid")
                /\ invalid_data_batch' =
                       process_and_validate_item(invalid_data_batch, 1, site[1], "invalid")
        /\ UNCHANGED <<govVars, semaphore, bans, output_file, invalid_output_file,
                       chunk, proc, site>>

NextLegacy == LegacyLaunch \/ FetchPage \/ FetchApi \/ LegacyProcess

SpecLegacy == InitLegacy /\ [][NextLegacy]_vars

-----------------------------------------------------------------------------
(* The SteamDataProcessor driven by arbitrary call sequences, on files     *)
(* that may refuse a write                                                 *)

BatchSizes == { 1, 2, 3 }            \* batch_size = args.chunk_size
ProcArgs == { [a EXCEPT !.chunk_size = k] : a \in FetchArgs, k \in BatchSizes }

InitProc ==
    /\ \E a \in ProcArgs : governor = PerformanceGovernor(a)
    /\ adjusts = 0
    /\ prev = NoCall
    /\ log = << >>
    /\ RunIdle

\* process_and_validate_item(data): the records are numbered as they come
CallItem(tag) ==
    LET app_id == proc.items + 1 IN
    /\ proc.items < MaxItems
    /\ valid_data_batch' =
           process_and_validate_item(valid_data_batch, app_id, tag, "valid")
    /\ invalid_data_batch' =
           process_and_validate_item(invalid_data_batch, app_id, tag, "invalid")
    /\ proc' = [op |-> "process_and_validate_item", okV |-> TRUE, okI |-> TRUE,
                items |-> app_id]
    /\ UNCHANGED <<govVars, pc, tasks, semaphore, bans, output_file,
                   invalid_output_file, chunk, attempt, site>>

\* await flush_batches_if_needed()
CallFlush(okV, okI) ==
    /\ flush_batches_if_needed(valid_data_batch, invalid_data_batch, okV, okI)
    /\ proc' = [op |-> "flush_batches_if_needed", okV |-> okV, okI |-> okI,
                items |-> proc.items]
    /\ UNCHANGED <<govVars, pc, tasks, semaphore, bans, chunk, attempt, site>>

\* finalize_processing()
CallFinalize(okV, okI) ==
    /\ finalize_processing(okV, okI)
    /\ proc' = [op |-> "finalize_processing", okV |-> okV, okI |-> okI,
                items |-> proc.items]
    /\ UNCHANGED <<govVars, pc, tasks, semaphore, bans, chunk, attempt, site>>

ProcItem == \E tag \in {"valid", "invalid"} : CallItem(tag)
ProcFlush == \E okV \in BOOLEAN, okI \in BOOLEAN : CallFlush(okV, okI)
ProcFinalize == \E okV \in BOOLEAN, okI \in BOOLEAN : CallFinalize(okV, okI)

NextProc == ProcItem \/ ProcFlush \/ ProcFinalize

SpecProc == InitProc /\ [][NextProc]_vars

-----------------------------------------------------------------------------
(* Vocabulary of the properties, stated on the observations alone *)

Limited(h) == Cardinality({i \in 1..Len(h) : h[i] = "RATE_LIMIT"})
\* Limited(h) / Len(h) compared with pct / 100, by cross-multiplication
FractionAbove(h, pct) == Limited(h) * 100 * pct[2] > pct[1] * Len(h)
FractionBelow(h, pct) == Limited(h) * 100 * pct[2] < pct[1] * Len(h)
HalfWindow(g) == 2 * Len(g.history) >= g.args.history_size
Assessed == prev.op = "assess_and_adjust"
ValidArgs(a) ==
    /\ a.min_concurrency <= a.max_concurrency
    /\ ~RLt(a.max_delay, a.min_delay)
Between(lo, x, hi) == ~RLt(x, lo) /\ ~RLt(hi, x)
LastOf(s, n) == SubSeq(s, Len(s) - n + 1, Len(s))
Least(a, b) == IF a < b THEN a ELSE b

-----------------------------------------------------------------------------
(* C1: with min <= max for both parameters, concurrency and delay stay     *)
(* within their configured bounds after any sequence of governor calls,    *)
(* and so does the integer gate size get_concurrency returns.              *)
C1_Clamped ==
    ValidArgs(governor.args) =>
        /\ Between(FromInt(governor.args.min_concurrency),
                   governor.current_concurrency,
                   FromInt(governor.args.max_concurrency))
        /\ Between(governor.args.min_delay, governor.current_delay,
                   governor.args.max_delay)
        /\ get_concurrency(governor) >= governor.args.min_concurrency
        /\ get_concurrency(governor) <= governor.args.max_concurrency

C1_Witness ==
    /\ ValidArgs(governor.args)
    /\ Assessed
    /\ governor.state = "THROTTLED"
    /\ governor.current_delay = governor.args.max_delay
    /\ RLt(governor.args.max_delay, RMul(prev.g.current_delay, <<11, 10>>))
    /\ governor.current_concurrency = FromInt(governor.args.min_concurrency)
    /\ RLt(RMul(prev.g.current_concurrency, <<9, 10>>),
           FromInt(governor.args.min_concurrency))

(* C2 as stated: from Optimizing, any history whose RateLimited fraction   *)
(* exceeds the threshold makes one assess_and_adjust() end in Throttled.   *)
C2_AsStated ==
    (/\ Assessed
     /\ prev.g.state = "OPTIMIZING"
     /\ prev.g.history # << >>
     /\ FractionAbove(prev.g.history, prev.g.args.throttle_threshold_pct))
        => governor.state = "THROTTLED"

(* C2 amended: from Optimizing, a history holding at least history_size/2  *)
(* outcomes whose RateLimited fraction exceeds the threshold makes one     *)
(* assess_and_adjust() end in Throttled.                                   *)
C2_Throttles ==
    (/\ Assessed
     /\ prev.g.state = "OPTIMIZING"
     /\ HalfWindow(prev.g)
     /\ FractionAbove(prev.g.history, prev.g.args.throttle_threshold_pct))
        => governor.state = "THROTTLED"

C2_Witness ==
    /\ Assessed
    /\ prev.g.state = "OPTIMIZING"
    /\ HalfWindow(prev.g)
    /\ FractionAbove(prev.g.history, prev.g.args.throttle_threshold_pct)
    /\ Limited(prev.g.history) < Len(prev.g.history)
    /\ governor.state = "THROTTLED"

(* C3: an assess_and_adjust() call made in Recovering with at least one    *)
(* RateLimited outcome in the window never ends in Optimizing.             *)
C3_RecoveringHeld ==
    (/\ Assessed
     /\ prev.g.state = "RECOVERING"
     /\ Limited(prev.g.history) >= 1)
        => governor.state # "OPTIMIZING"

C3_Witness ==
    /\ Assessed
    /\ prev.g.state = "RECOVERING"
    /\ HalfWindow(prev.g)
    /\ Limited(prev.g.history) = 1
    /\ Len(prev.g.history) = prev.g.args.history_size
    /\ Len(prev.g.history) >= 3
    /\ governor.state = "RECOVERING"

(* C4 as stated: Recovering returns to Optimizing only on a full window    *)
(* (history_size outcomes) with zero RateLimited outcomes.                 *)
C4_AsStated ==
    (/\ Assessed
     /\ prev.g.state = "RECOVERING"
     /\ governor.state = "OPTIMIZING")
        => /\ Len(prev.g.history) = prev.g.args.history_size
           /\ Limited(prev.g.history) = 0

(* C4 amended: Recovering returns to Optimizing only in a call made with   *)
(* at least history_size/2 outcomes in the window and none of them         *)
(* RateLimited; with fewer than history_size/2 outcomes it stays           *)
(* Recovering.                                                             *)
C4_RecoveryExit ==
    (Assessed /\ prev.g.state = "RECOVERING") =>
        /\ governor.state = "OPTIMIZING" =>
               (HalfWindow(prev.g) /\ Limited(prev.g.history) = 0)
        /\ ~HalfWindow(prev.g) => governor.state = "RECOVERING"

C4_Witness ==
    /\ Assessed
    /\ prev.g.state = "RECOVERING"
    /\ governor.state = "OPTIMIZING"
    /\ Len(prev.g.history) < prev.g.args.history_size

(* C5: assess_and_adjust() moves Optimizing only to Throttled, Throttled   *)
(* only to Optimizing, Recovering only to Optimizing; the state becomes    *)
(* Recovering only by reset_after_ban.                                     *)
C5_Transitions ==
    /\ Assessed =>
        \/ governor.state = prev.g.state
        \/ prev.g.state = "OPTIMIZING" /\ governor.state = "THROTTLED"
        \/ prev.g.state = "THROTTLED" /\ governor.state = "OPTIMIZING"
        \/ prev.g.state = "RECOVERING" /\ governor.state = "OPTIMIZING"
    /\ (prev.op # "init" /\ governor.state = "RECOVERING"
            /\ prev.g.state # "RECOVERING")
           => prev.op = "reset_after_ban"

C5_Witness ==
    /\ Assessed
    /\ prev.g.state = "OPTIMIZING"
    /\ HalfWindow(prev.g)
    /\ Limited(prev.g.history) = Len(prev.g.history)
    /\ governor.state = "THROTTLED"

(* C6: with fewer than history_size/2 outcomes in the window,              *)
(* assess_and_adjust() leaves the whole governor unchanged.                *)
C6_SparseNoop ==
    (Assessed /\ ~HalfWindow(prev.g)) => governor = prev.g

C6_Witness ==
    /\ Assessed
    /\ ~HalfWindow(prev.g)
    /\ prev.g.state = "OPTIMIZING"
    /\ Limited(prev.g.history) >= 1
    /\ governor = prev.g

(* C7: with at least half a window, Throttled returns to Optimizing iff    *)
(* the RateLimited fraction is strictly below the threshold; a fraction    *)
(* equal to the threshold changes neither Optimizing nor Throttled.        *)
C7_ReturnBelow ==
    (Assessed /\ HalfWindow(prev.g)) =>
        /\ prev.g.state = "THROTTLED" =>
               (governor.state = "OPTIMIZING"
                    <=> FractionBelow(prev.g.history,
                                      prev.g.args.throttle_threshold_pct))
        /\ (/\ prev.g.state \in {"OPTIMIZING", "THROTTLED"}
            /\ ~FractionBelow(prev.g.history, prev.g.args.throttle_threshold_pct)
            /\ ~FractionAbove(prev.g.history, prev.g.args.throttle_threshold_pct))
               => governor.state = prev.g.state

C7_Witness ==
    /\ Assessed
    /\ HalfWindow(prev.g)
    /\ prev.g.state = "THROTTLED"
    /\ ~FractionBelow(prev.g.history, prev.g.args.throttle_threshold_pct)
    /\ ~FractionAbove(prev.g.history, prev.g.args.throttle_threshold_pct)
    /\ governor.state = "THROTTLED"

(* C8: reset_after_ban leaves state Recovering, concurrency at its         *)
(* minimum, delay at its maximum and an empty window, from any governor.   *)
C8_Reset ==
    prev.op = "reset_after_ban" =>
        /\ governor.state = "RECOVERING"
        /\ governor.current_concurrency = FromInt(governor.args.min_concurrency)
        /\ governor.current_delay = governor.args.max_delay
        /\ governor.history = << >>

C8_Witness ==
    /\ prev.op = "reset_after_ban"
    /\ ValidArgs(prev.g.args)
    /\ prev.g.state # "RECOVERING"
    /\ prev.g.history # << >>
    /\ prev.g.current_delay # prev.g.args.max_delay
    /\ prev.g.current_concurrency # FromInt(prev.g.args.min_concurrency)
    /\ governor.state = "RECOVERING"

(* C9: the window never exceeds history_size and always equals the last    *)
(* min(history_size, k) of the k outcomes recorded since the last reset,   *)
(* in insertion order.                                                     *)
C9_Window ==
    /\ Len(governor.history) <= governor.args.history_size
    /\ governor.history =
           LastOf(log, Least(governor.args.history_size, Len(log)))

C9_Witness ==
    /\ Len(log) > governor.args.history_size + 1
    /\ governor.args.history_size >= 2
    /\ log[1] # log[Len(log)]
    /\ governor.history[1] # governor.history[Len(governor.history)]
    /\ prev.op = "record_outcome"

-----------------------------------------------------------------------------
(* Vocabulary of the properties about one attempt *)

Attempted == attempt # NoAttempt
\* a sub-fetch reports a block signal: a 403, or the marker in the page body
BlockSignal(r) == (\E i \in 1..3 : r.status[i] = 403) \/ r.captcha

(* C11 as stated: an attempt in which any of the three sub-fetches reports *)
(* a block signal (a 403 or the block-page marker) is classified           *)
(* HardBlocked and raised, whatever the other sub-fetches returned.        *)
C11_AsStated ==
    (Attempted /\ BlockSignal(attempt.resp)) => attempt.outcome = "BANNED"

-----------------------------------------------------------------------------
(* Vocabulary of the properties about the workers of a run *)

\* worker t, which had sent nothing so far, sends its requests in this step
Starts(t) == t.at = "gate" /\ [t EXCEPT !.at = "fetch"] \in tasks'
\* the chunk that created worker t has been aborted by an IPBannedException
Aborted(t) == t.gen < bans

(* C12 as stated: once a worker of a chunk has raised the HardBlocked      *)
(* signal, no worker of that chunk that had not started its fetches        *)
(* (waiting at the gate or in its delay) issues any fetch afterwards.      *)
C12_AsStated == [][\A t \in tasks : Aborted(t) => ~Starts(t)]_vars

(* C13 as stated: from the start of a hibernation cooldown until its end   *)
(* no worker issues a fetch.                                               *)
C13_AsStated == [][pc = "hibernate" => \A t \in tasks : ~Starts(t)]_vars

-----------------------------------------------------------------------------
(* Vocabulary of the properties about the batches *)

BatchThreshold == governor.args.chunk_size
FlushCheck == proc'.op = "flush_batches_if_needed"
Finalize == proc'.op = "finalize_processing"
\* the step appends all of batch to file and empties the batch; the file is
\* looked at only if it could be written
Flushed(batch, batchAfter, file, fileAfter, ok) ==
    batchAfter = << >> /\ (ok => fileAfter = file \o batch)
Untouched(batch, batchAfter, file, fileAfter) ==
    batchAfter = batch /\ fileAfter = file

(* C15: a flush check writes and empties a batch if and only if its size   *)
(* has reached the threshold and leaves a smaller batch and its file       *)
(* untouched; finalize_processing writes every pending record of both      *)
(* batches whatever their size and leaves both empty. (What happens to a   *)
(* write that fails is C16.)                                               *)
C15_FlushRule ==
    [][/\ FlushCheck =>
            /\ IF Len(valid_data_batch) >= BatchThreshold
               THEN Flushed(valid_data_batch, valid_data_batch',
                            output_file, output_file', proc'.okV)
               ELSE Untouched(valid_data_batch, valid_data_batch',
                              output_file, output_file')
            /\ IF Len(invalid_data_batch) >= BatchThreshold
               THEN Flushed(invalid_data_batch, invalid_data_batch',
                            invalid_output_file, invalid_output_file', proc'.okI)
               ELSE Untouched(invalid_data_batch, invalid_data_batch',
                              invalid_output_file, invalid_output_file')
       /\ Finalize =>
            /\ Flushed(valid_data_batch, valid_data_batch',
                       output_file, output_file', proc'.okV)
            /\ Flushed(invalid_data_batch, invalid_data_batch',
                       invalid_output_file, invalid_output_file', proc'.okI)
      ]_vars

\* a flush check has just written the valid batch, which had reached the
\* threshold, and left the smaller invalid batch pending
C15_Witness ==
    /\ proc.op = "flush_batches_if_needed"
    /\ proc.okV
    /\ BatchThreshold = 2
    /\ Len(output_file) = BatchThreshold
    /\ valid_data_batch = << >>
    /\ Len(invalid_data_batch) = 1
    /\ invalid_output_file = << >>
    /\ proc.items = 3

(* C16 as stated: a batch is cleared only once its records are written: a  *)
(* step that empties a batch leaves all its records in the file.           *)
C16_AsStated ==
    [][/\ (valid_data_batch # << >> /\ valid_data_batch' = << >>)
            => output_file' = output_file \o valid_data_batch
       /\ (invalid_data_batch # << >> /\ invalid_data_batch' = << >>)
            => invalid_output_file' = invalid_output_file \o invalid_data_batch
      ]_vars

-----------------------------------------------------------------------------
(* Vocabulary of the properties about the ledger *)

InLedger == Range(output_file) \cup Range(invalid_output_file)
Absent == all_ids \ InLedger
\* run() builds and launches a chunk in this step
Launches == pc = "loop" /\ pc' = "gather"
Times(file, i) == Cardinality({k \in 1..Len(file) : file[k] = i})
AtRecoveryPoint(g) ==
    /\ g.state = "RECOVERING"
    /\ g.current_concurrency = FromInt(g.args.min_concurrency)
    /\ g.current_delay = g.args.max_delay

C17_SmallestAbsent ==
    [][Launches =>
          /\ chunk'.ids \subseteq Absent
          /\ Cardinality(chunk'.ids) =
                 Least(governor.args.chunk_size, Cardinality(Absent))
          /\ \A i \in chunk'.ids : \A j \in Absent \ chunk'.ids : i < j
          /\ {t.app_id : t \in tasks' \ tasks} = chunk'.ids
          /\ \A t \in tasks' \ tasks : t.at = "gate"
      ]_vars

\* id 1 is in the invalid file and the chunk running holds id 2 alone
C17_Witness ==
    /\ chunk.phase = "running"
    /\ output_file = << >>
    /\ invalid_output_file = <<1>>
    /\ chunk.ids = {2}

(* C18 as stated (its second half): an identifier whose record failed      *)
(* validation and was routed to the invalid batch counts as done: no       *)
(* later chunk holds it.                                                   *)
C18_AsStated ==
    [][Launches =>
          chunk'.ids \cap (Range(invalid_data_batch)
                             \cup Range(invalid_output_file)) = {}]_vars

(* C19 as stated: every identifier has at most one record across the two   *)
(* files at all times.                                                     *)
C19_AsStated ==
    \A i \in all_ids : Times(output_file, i) + Times(invalid_output_file, i) <= 1

(* C20: the loop is left only when no identifier is absent from both       *)
(* files; while one is absent the next pass launches a chunk that holds    *)
(* the smallest absent identifier and every identifier of the previous     *)
(* chunk that is still absent; when run() has returned none is absent.     *)
C20_NoSkip ==
    /\ [](pc = "done" => Absent = {})
    /\ [][(pc = "loop" /\ pc' # "loop") =>
             IF Absent = {}
             THEN pc' = "done"
             ELSE /\ Launches
                  /\ \E i \in chunk'.ids : \A j \in Absent : i <= j
                  /\ chunk.phase \in {"adjusted", "aborted"} =>
                         (chunk.ids \cap Absent) \subseteq chunk'.ids
         ]_vars

\* ids 1 and 2 were fetched, left pending, fetched again and written twice
\* before the loop was left
C20_Witness ==
    /\ pc = "done"
    /\ output_file = <<1, 1>>
    /\ invalid_output_file = <<2, 2>>

-----------------------------------------------------------------------------
(* Vocabulary of the properties about the gate and the chunk boundary *)

PastGate == {t \in tasks : t.at = "fetch"}
\* int() of the concurrency the governor had when the chunk was launched
GateAtStart == chunk.start_concurrency[1] \div chunk.start_concurrency[2]
ChunkRuns == pc = "gather" /\ chunk.phase = "running"
\* worker t of the running chunk ends in this step without raising
EndsQuietly(t) ==
    /\ ChunkRuns /\ t.gen = bans
    /\ \A u \in tasks' : u.app_id # t.app_id \/ u.gen # t.gen
    /\ pc' = "gather"
\* window h2 is window h of size n after one more outcome
OneMore(h, h2, n) ==
    \E o \in RequestOutcome :
        h2 = LastOf(Append(h, o), Least(Len(h) + 1, n))
SameSpeed(g, g2) ==
    /\ g2.state = g.state
    /\ g2.current_concurrency = g.current_concurrency
    /\ g2.current_delay = g.current_delay
\* the chunk boundary: the step in which assess_and_adjust() is called
Boundary == chunk.phase = "running" /\ chunk'.phase = "adjusted"

(* C23 as stated: while a chunk runs its gate has the size read from the   *)
(* governor when the chunk started, and at every moment the pipelines      *)
(* that have passed the gate and have not finished are at most that many.  *)
C23_AsStated ==
    ChunkRuns =>
        /\ semaphore[bans] = GateAtStart
        /\ Cardinality(PastGate) <= GateAtStart

(* C30: a worker of a chunk that ends without raising appends exactly one  *)
(* outcome to the window and changes nothing else of the governor;         *)
(* assess_and_adjust() is called once per chunk, when no worker of the     *)
(* chunk is left, before the next chunk is built, and not for a chunk      *)
(* aborted by a hard block; state, concurrency and delay change at no      *)
(* other step but the reset.                                               *)
C30_ChunkBoundary ==
    [][/\ \A t \in tasks : EndsQuietly(t) =>
              /\ OneMore(governor.history, governor'.history,
                         governor.args.history_size)
              /\ SameSpeed(governor, governor')
       /\ Boundary =>
              /\ pc = "gather" /\ pc' = "loop"
              /\ \A t \in tasks : t.gen # bans
              /\ tasks' = tasks
       /\ ~SameSpeed(governor, governor') =>
              Boundary \/ (pc = "banned" /\ pc' = "hibernate")
       /\ Launches => chunk.phase \in {"none", "adjusted", "aborted"}
       /\ (pc = "gather" /\ pc' = "loop") => Boundary
       /\ pc \in {"banned", "hibernate"} => chunk'.phase # "adjusted"
      ]_vars

\* a chunk of two workers has ended with both outcomes in the window and
\* the adjustment has moved the governor to Throttled
C30_Witness ==
    /\ chunk.phase = "adjusted"
    /\ Cardinality(chunk.ids) = 2
    /\ bans = 0
    /\ Len(governor.history) = 2
    /\ governor.state = "THROTTLED"
    /\ adjusts = 1

(* C22 as stated: at the end of the cooldown that follows a hard block,    *)
(* every entity of the aborted chunk that had completed and enqueued a     *)
(* record before the signal is in a ledger file, the hard-blocked entity   *)
(* is in none, and so the remaining set recomputed then holds the blocked  *)
(* entity and none of the completed ones.                                  *)
C22_AsStated ==
    pc = "hibernate" =>
        /\ attempt.done \subseteq InLedger
        /\ attempt.app_id \notin InLedger
        /\ attempt.app_id \in Absent
        /\ attempt.done \cap Absent = {}

(* C25: when run() has returned after the main loop both batches are empty *)
(* and each record enqueued during the run is in its matching file exactly *)
(* once: each file holds what it held at the start plus one line for each  *)
(* record of its kind that was enqueued, and no line of the other kind.    *)
C25_AllWrittenOnce ==
    pc = "done" =>
        /\ valid_data_batch = << >>
        /\ invalid_data_batch = << >>
        /\ \A i \in all_ids :
              /\ Times(output_file, i) = Times(proc.start, i) + Times(proc.valid, i)
              /\ Times(invalid_output_file, i) = Times(proc.invalid, i)

\* run() has returned after a hibernation, having enqueued valid and invalid
\* records, one entity twice
C25_Witness ==
    /\ pc = "done"
    /\ bans = 1
    /\ proc.invalid # << >>
    /\ \E i \in all_ids : Times(proc.valid, i) = 2

-----------------------------------------------------------------------------
(* Vocabulary of the properties about the start of the program and about   *)
(* kills                                                                   *)

\* the identifiers a reader of the file finds in it
Readable(file) ==
    {i \in all_ids : \E k \in 1..Len(file) : file[k] = i \/ file[k] = 0 - i}
Ledger == Readable(output_file) \cup Readable(invalid_output_file)
SchemaUnusable == governor.args.schema_file \in {"missing", "not_json"}
SchemaDenied == governor.args.schema_file = "denied"
CatalogUnusable == governor.args.source_file # "ok"
NothingDone ==
    /\ tasks = {} /\ chunk = NoChunk
    /\ valid_data_batch = << >> /\ invalid_data_batch = << >>
    /\ output_file = proc.start /\ invalid_output_file = << >>

(* C21: a run that was killed, at any point and any number of times, and   *)
(* started again ends with the ledger of a run that was never killed:      *)
(* every entity of the universe is in the ledger, and an entity that was   *)
(* not in a file at the start is in the valid file if and only if it       *)
(* yields a valid record, in the invalid file if and only if it yields an  *)
(* invalid one.                                                            *)
C21_SameLedger ==
    pc = "done" =>
        /\ Ledger = all_ids
        /\ \A i \in all_ids \ Readable(proc.start) :
              /\ i \in Readable(output_file) <=> site[i] = "valid"
              /\ i \in Readable(invalid_output_file) <=> site[i] = "invalid"

\* a run completed after a kill that lost pending records and a kill in the
\* middle of a write
C21_Witness ==
    /\ pc = "done"
    /\ {"lost", "write"} \subseteq proc.kills
    /\ proc.start = << >>

C29_AsStated ==
    [][/\ Readable(output_file) \subseteq Readable(output_file')
       /\ Readable(invalid_output_file) \subseteq Readable(invalid_output_file')
       /\ governor'.args = governor.args]_vars

-----------------------------------------------------------------------------
(* Vocabulary of the property about failures inside a worker *)

\* the pipeline of worker t ends in this step
Ends(t) == \A u \in tasks' : u.app_id # t.app_id \/ u.gen # t.gen
\* the fetch met a failure that is not a block signal: a request without
\* response, an unexpected status, or a payload that cannot be processed
Failed(r) ==
    \/ \E i \in 1..3 : r.status[i] \notin {200, 429, 403}
    \/ r.data = "malformed"

(* C27: a worker lets nothing out of its pipeline but the hard-block       *)
(* signal. When its fetch meets a timeout, a connection error, an          *)
(* unexpected status or a payload that makes the parser, the extractor or  *)
(* the validator raise, the pipeline returns Failure, which is recorded;   *)
(* run() stays where it is, no hibernation starts, and the other workers   *)
(* are left as they are, with the gate slot of the failed one free.        *)
C27_FailureContained ==
    [][\A t \in tasks : (Ends(t) /\ t.gen = bans /\ pc = "gather") =>
          LET r == attempt'.resp IN
          /\ attempt'.app_id = t.app_id
          /\ pc' = "banned" => (BlockSignal(r) /\ ~Failed(r))
          /\ Failed(r) =>
                /\ attempt'.outcome = "FAILURE"
                /\ governor'.history # << >>
                /\ governor'.history[Len(governor'.history)] = "FAILURE"
                /\ pc' = pc /\ bans' = bans
                /\ tasks' = tasks \ {t}
                /\ semaphore' = semaphore
                /\ Cardinality({u \in tasks' : u.gen = bans /\ u.at = "fetch"})
                       < semaphore[bans]
      ]_vars

\* a worker has failed on a payload while the other worker of its chunk was
\* waiting at the gate; the chunk goes on
C27_Witness ==
    /\ attempt # NoAttempt
    /\ attempt.resp.data = "malformed"
    /\ attempt.outcome = "FAILURE"
    /\ pc = "gather"
    /\ \E t \in tasks : t.gen = bans /\ t.at = "gate"
    /\ governor.history = <<"FAILURE">>

-----------------------------------------------------------------------------
(* Vocabulary of the property about the batch lock *)

\* the workers whose threshold flush is in progress: they hold the lock
\* while a thread writes their copy of a batch
Flushing == {t \in tasks : t.at \in {"write_valid", "write_invalid"}}
\* run() performs an unconditional flush in this step, and it writes
UnconditionalWrite ==
    /\ \/ pc = "banned" /\ pc' = "hibernate"
       \/ pc = "loop" /\ pc' = "done"
    /\ valid_data_batch # << >> \/ invalid_data_batch # << >>

(* C24 as stated: at most one threshold flush is in progress at a time,    *)
(* and while one is in progress no unconditional flush, at hibernation or  *)
(* at shutdown, writes a batch.                                            *)
C24_AsStated ==
    [][/\ Cardinality(Flushing') <= 1
       /\ UnconditionalWrite => Flushing = {}]_vars

-----------------------------------------------------------------------------
(* Vocabulary of the adjustment rules *)

\* x < y, the denominators reduced by their common divisor first
Less(x, y) ==
    LET c == GCD(x[2], y[2]) IN x[1] * (y[2] \div c) < y[1] * (x[2] \div c)
\* x * 0.95 floored at lo: what a speed-up makes of a delay
Sped(x, lo) == IF Less(RMul(x, <<19, 20>>), lo) THEN lo ELSE RMul(x, <<19, 20>>)
NotAbove(x, y) == ~Less(y, x)
Acted == Assessed /\ HalfWindow(prev.g)
BacksOff ==
    /\ NotAbove(governor.current_concurrency, prev.g.current_concurrency)
    /\ NotAbove(prev.g.current_delay, governor.current_delay)
SpeedsUp == governor.current_delay = Sped(prev.g.current_delay, prev.g.args.min_delay)

(* C31 as stated: a call that acts applies the adjustment rule of the      *)
(* state it ends in: ending in Throttled it backs off, ending in           *)
(* Optimizing, from whatever state, it multiplies the delay by 0.95 down   *)
(* to min_delay.                                                           *)
C31_AsStated ==
    (Acted /\ ValidArgs(prev.g.args)) =>
        /\ governor.state = "THROTTLED" => BacksOff
        /\ governor.state = "OPTIMIZING" => SpeedsUp

AtMinDelay == governor.current_delay = governor.args.min_delay
AtMaxConcurrency ==
    governor.current_concurrency = FromInt(governor.args.max_concurrency)
\* a call that applied the Optimizing rule
Optimized ==
    /\ Acted
    /\ prev.g.state \in {"OPTIMIZING", "THROTTLED"}
    /\ governor.state = "OPTIMIZING"

(* C32: with valid bounds, a call that applies the Optimizing rule neither *)
(* raises the delay nor lowers the concurrency, and raises the concurrency *)
(* only if the delay it leaves equals min_delay; and when the chunks keep  *)
(* the RateLimited fraction at or below the threshold, the delay reaches   *)
(* min_delay and the concurrency then reaches max_concurrency.             *)
C32_PushesToLimits ==
    /\ []((Optimized /\ ValidArgs(prev.g.args)) =>
            /\ NotAbove(governor.current_delay, prev.g.current_delay)
            /\ NotAbove(prev.g.current_concurrency, governor.current_concurrency)
            /\ Less(prev.g.current_concurrency, governor.current_concurrency)
                   => AtMinDelay)
    /\ <>AtMinDelay
    /\ <>(AtMinDelay /\ AtMaxConcurrency)

\* the last speed-up that was needed: the delay was at its minimum already
\* and the concurrency has just reached its maximum
C32_Witness ==
    /\ Optimized
    /\ ValidArgs(prev.g.args)
    /\ Less(prev.g.args.min_delay, prev.g.args.max_delay)
    /\ prev.g.current_delay = prev.g.args.min_delay
    /\ Less(prev.g.current_concurrency, governor.current_concurrency)
    /\ AtMinDelay
    /\ AtMaxConcurrency
    /\ Limited(prev.g.history) >= 1

AtMinConcurrency ==
    governor.current_concurrency = FromInt(governor.args.min_concurrency)
AtMaxDelay == governor.current_delay = governor.args.max_delay
\* a call that applied the Throttled rule
Throttled == Acted /\ governor.state = "THROTTLED"

(* C33: with valid bounds, a call that applies the Throttled rule neither  *)
(* raises the concurrency nor lowers the delay, and leaves both where they *)
(* were once they are at min_concurrency and max_delay; and when the       *)
(* chunks keep the RateLimited fraction at or above the threshold, a       *)
(* governor in Throttled reaches min_concurrency and max_delay.            *)
C33_BacksOffToLimits ==
    /\ []((Throttled /\ ValidArgs(prev.g.args)) =>
            /\ BacksOff
            /\ (/\ prev.g.state = "THROTTLED"
                /\ prev.g.current_concurrency = FromInt(prev.g.args.min_concurrency)
                /\ prev.g.current_delay = prev.g.args.max_delay)
                   => (AtMinConcurrency /\ AtMaxDelay))
    /\ (governor.state = "THROTTLED") ~> (AtMinConcurrency /\ AtMaxDelay)

\* the back-off that reached both limits, from a concurrency and a delay
\* that were both off them
C33_Witness ==
    /\ Throttled
    /\ ValidArgs(prev.g.args)
    /\ prev.g.state = "THROTTLED"
    /\ Less(FromInt(prev.g.args.min_concurrency), prev.g.current_concurrency)
    /\ Less(prev.g.current_delay, prev.g.args.max_delay)
    /\ AtMinConcurrency
    /\ AtMaxDelay

(* C34: a governor in Recovering has its concurrency at min_concurrency    *)
(* and its delay at max_delay, and an assess_and_adjust() call made in     *)
(* Recovering changes neither, whether it stays in Recovering or not.      *)
C34_Pinned ==
    /\ governor.state = "RECOVERING" => (AtMinConcurrency /\ AtMaxDelay)
    /\ (Assessed /\ prev.g.state = "RECOVERING") =>
           /\ governor.current_concurrency = prev.g.current_concurrency
           /\ governor.current_delay = prev.g.current_delay

\* an acting call that stayed in Recovering on a window holding a
\* RateLimited outcome, under bounds with min < max
C34_Witness ==
    /\ Acted
    /\ prev.g.state = "RECOVERING"
    /\ governor.state = "RECOVERING"
    /\ Limited(prev.g.history) >= 1
    /\ Less(prev.g.args.min_delay, prev.g.args.max_delay)
    /\ prev.g.args.min_concurrency < prev.g.args.max_concurrency
    /\ AtMinConcurrency
    /\ AtMaxDelay

\* run() launches the first chunk after a hibernation in this step
Relaunches == pc = "loop" /\ pc' = "gather" /\ chunk.phase = "aborted"

(* C35 as stated: when the first chunk after a hibernation is launched the *)
(* window of the governor is empty.                                        *)
C35_AsStated == [][Relaunches => governor.history = << >>]_vars

\* the identifiers carried by the well-formed lines of the files that exist
Carried(file) ==
    IF file.exists
    THEN {file.lines[k].app_id :
              k \in {j \in 1..Len(file.lines) : file.lines[j].kind = "record"}}
    ELSE {}
Scanned == proc.op = "get_already_processed_ids"

(* C36 as stated: the scan ends without raising and marks exactly the      *)
(* identifiers carried by a well-formed line of either file; every other   *)
(* line is skipped and a missing file counts as empty.                     *)
C36_AsStated ==
    Scanned =>
        /\ ~proc.result.raised
        /\ proc.result.ids = Carried(output_file) \cup Carried(invalid_output_file)

-----------------------------------------------------------------------------
(* Vocabulary of the properties about the delay-manager variant *)

Ended(op) == "op" \in DOMAIN attempt /\ attempt.op = op
\* the response is a hard block: a 403, or a page with the CAPTCHA marker
HardBlock(a) == a.status = 403 \/ a.captcha
\* the first k answers were all 429
AllLimited(answers, k) == \A j \in 1..k : answers[j].status = 429

(* C37 as stated: fetch_with_retries raises the hard-block exception for   *)
(* every 403 or CAPTCHA response, the response to the retry made after a   *)
(* 429 included, and records no success for it.                            *)
C37_AsStated ==
    Ended("fetch_with_retries") =>
        /\ HardBlock(attempt.first) => attempt.call.result = "IPBanned"
        /\ (attempt.first.status = 429 /\ HardBlock(attempt.retry)) =>
               /\ attempt.call.result = "IPBanned"
               /\ \A k \in 1..Len(attempt.call.recorded) :
                      attempt.call.recorded[k] # "success"

C39_AsStated ==
    /\ Len(valid_data_batch) <= BatchThreshold
    /\ Len(invalid_data_batch) <= BatchThreshold

====
